---- MODULE Spec2Model ----
(***************************************************************************)
(* Rejseplanen MCP server (src/src/server.py): five tool handlers sharing  *)
(* one request helper, make_api_request.  A tool call is followed through  *)
(* its steps: the handler validates its arguments and builds its parameter *)
(* dict, make_api_request sets format=json and issues the GET, the         *)
(* upstream answers (or the network fails), and the helper turns the       *)
(* answer into the returned value or the raised exception.                 *)
(*                                                                         *)
(* Python strings are sequences of one-character strings, so that strip()  *)
(* and str() are computed rather than assumed.  Optional values are <<>>   *)
(* (None) or <<v>>.                                                        *)
(***************************************************************************)
EXTENDS Integers, Sequences, FiniteSets, TLC

VARIABLES environ, jsonErrorIsRequestException, calls, heap

vars == <<environ, jsonErrorIsRequestException, calls, heap>>

(* ------------------------------ bounds --------------------------------- *)

\* longest query string tried by location_search
MaxLen == 3
\* how far beyond each numeric limit of nearby_stops the inputs reach
Slack == 1
\* number of tool calls that may be in progress at once in SpecConc
NumCalls == 2

(* --------------------------- program constants ------------------------- *)

MaxRadiusCap == 10000
MaxNumberCap == 50

(* ------------------------------ strings -------------------------------- *)

Whitespace == {" ", "\t", "\n"}
Alphabet == {" ", "\t", "a", "B"}

StringsUpTo(n) == UNION {[1..k -> Alphabet] : k \in 0..n}

\* str.strip(): drops leading and trailing whitespace, nothing else
RECURSIVE LStrip(_)
LStrip(s) == IF s # <<>> /\ Head(s) \in Whitespace THEN LStrip(Tail(s)) ELSE s

RECURSIVE RStrip(_)
RStrip(s) ==
    IF s # <<>> /\ s[Len(s)] \in Whitespace
    THEN RStrip(SubSeq(s, 1, Len(s) - 1))
    ELSE s

Strip(s) == RStrip(LStrip(s))

\* truth value of a Python str (or None, given as <<>> of an optional)
Truthy(s) == s # <<>>

Digits == <<"0", "1", "2", "3", "4", "5", "6", "7", "8", "9">>

RECURSIVE NatStr(_)
NatStr(n) == IF n < 10 THEN <<Digits[n + 1]>> ELSE NatStr(n \div 10) \o <<Digits[(n % 10) + 1]>>

\* str(n) of an int
PyStrInt(n) == IF n < 0 THEN <<"-">> \o NatStr(-n) ELSE NatStr(n)

\* str(x) of a float holding a whole number of degrees: "12.0", "-90.0"
PyStrFloat(x) == PyStrInt(x) \o <<".", "0">>

Json == <<"j", "s", "o", "n">>
Xml == <<"x", "m", "l">>

EmptyDict == [k \in {} |-> <<>>]

\* d[key] = value on a dict
DictSet(d, key, value) ==
    [k \in DOMAIN d \cup {key} |-> IF k = key THEN value ELSE d[k]]

(* ------------------------------ values --------------------------------- *)

\* an optional value is None (<<>>) or <<v>>; "if date:" is false for None and ""
OptTruthy(o) == o # <<>> /\ Truthy(o[1])

NoArgs == [none |-> TRUE]
NoValue == [none |-> TRUE]
NoResponse == [net |-> "none"]
NoOutcome == [status |-> "none", exc |-> "", msg |-> "", value |-> NoValue]

Returned(v) == [status |-> "ok", exc |-> "", msg |-> "", value |-> v]
Raised(exc, msg) == [status |-> "error", exc |-> exc, msg |-> msg, value |-> NoValue]

IdleCall ==
    [pc |-> "idle", tool |-> "", args |-> NoArgs, endpoint |-> "",
     sent |-> <<>>, response |-> NoResponse, outcome |-> NoOutcome]

Slots == 1..NumCalls

(* --------------------------- location_search --------------------------- *)

LocationSearchValidate(a) ==
    IF ~Truthy(a.query) \/ ~Truthy(Strip(a.query))
    THEN <<"Search query cannot be empty">>
    ELSE <<>>

\* only the leading whitespace is removed
LocationSearchParamsLStrip(a) == DictSet(EmptyDict, "input", LStrip(a.query))

LocationSearchParams(a) == DictSet(EmptyDict, "input", Strip(a.query))

(* ----------------------------- trip_search ----------------------------- *)

TripSearchValidate(a) ==
    IF ~Truthy(a.origin_id) \/ ~Truthy(Strip(a.origin_id))
    THEN <<"origin_id is required">>
    ELSE IF ~Truthy(a.dest_id) \/ ~Truthy(Strip(a.dest_id))
    THEN <<"dest_id is required">>
    ELSE <<>>

Flag(b) == IF b THEN <<"1">> ELSE <<"0">>

\* useMetro taken from the bus flag
TripSearchParamsMetroFromBus(a) ==
    LET p0 == DictSet(DictSet(EmptyDict, "originId", Strip(a.origin_id)),
                      "destId", Strip(a.dest_id))
        p1 == IF OptTruthy(a.date) THEN DictSet(p0, "date", a.date[1]) ELSE p0
        p2 == IF OptTruthy(a.time) THEN DictSet(p1, "time", a.time[1]) ELSE p1
        p3 == DictSet(p2, "useTog", Flag(a.use_train))
        p4 == DictSet(p3, "useBus", Flag(a.use_bus))
        p5 == DictSet(p4, "useMetro", Flag(a.use_bus))
    IN  DictSet(p5, "useFerry", Flag(a.use_ferry))

TripSearchParams(a) ==
    LET p0 == DictSet(DictSet(EmptyDict, "originId", Strip(a.origin_id)),
                      "destId", Strip(a.dest_id))
        p1 == IF OptTruthy(a.date) THEN DictSet(p0, "date", a.date[1]) ELSE p0
        p2 == IF OptTruthy(a.time) THEN DictSet(p1, "time", a.time[1]) ELSE p1
        p3 == DictSet(p2, "useTog", Flag(a.use_train))
        p4 == DictSet(p3, "useBus", Flag(a.use_bus))
        p5 == DictSet(p4, "useMetro", Flag(a.use_metro))
    IN  DictSet(p5, "useFerry", Flag(a.use_ferry))

(* --------------------------- departure_board --------------------------- *)

\* the whitespace test left out
DepartureBoardValidateNoStrip(a) ==
    IF ~Truthy(a.station_id) THEN <<"station_id is required">> ELSE <<>>

DepartureBoardValidate(a) ==
    IF ~Truthy(a.station_id) \/ ~Truthy(Strip(a.station_id))
    THEN <<"station_id is required">>
    ELSE <<>>

DepartureBoardParams(a) ==
    LET p0 == DictSet(EmptyDict, "id", Strip(a.station_id))
        p1 == IF OptTruthy(a.date) THEN DictSet(p0, "date", a.date[1]) ELSE p0
    IN  IF OptTruthy(a.time) THEN DictSet(p1, "time", a.time[1]) ELSE p1

(* ----------------------------- nearby_stops ---------------------------- *)

\* zero results are let through
NearbyStopsValidateZero(a) ==
    IF ~(-90 <= a.latitude /\ a.latitude <= 90)
    THEN <<"Latitude must be between -90 and 90">>
    ELSE IF ~(-180 <= a.longitude /\ a.longitude <= 180)
    THEN <<"Longitude must be between -180 and 180">>
    ELSE IF a.max_radius < 1
    THEN <<"max_radius must be at least 1 meter">>
    ELSE IF a.max_number < 0
    THEN <<"max_number must be at least 1">>
    ELSE <<>>

NearbyStopsValidate(a) ==
    IF ~(-90 <= a.latitude /\ a.latitude <= 90)
    THEN <<"Latitude must be between -90 and 90">>
    ELSE IF ~(-180 <= a.longitude /\ a.longitude <= 180)
    THEN <<"Longitude must be between -180 and 180">>
    ELSE IF a.max_radius < 1
    THEN <<"max_radius must be at least 1 meter">>
    ELSE IF a.max_number < 1
    THEN <<"max_number must be at least 1">>
    ELSE <<>>

LimitRadius(r) == IF r > MaxRadiusCap THEN MaxRadiusCap ELSE r

\* the number of results is limited by the cap of the radius
LimitNumberByRadiusCap(n) == IF n > MaxRadiusCap THEN MaxRadiusCap ELSE n

LimitNumber(n) == IF n > MaxNumberCap THEN MaxNumberCap ELSE n

NearbyStopsParams(a) ==
    LET p0 == DictSet(EmptyDict, "coordX", PyStrFloat(a.longitude))
        p1 == DictSet(p0, "coordY", PyStrFloat(a.latitude))
        p2 == DictSet(p1, "maxRadius", PyStrInt(LimitRadius(a.max_radius)))
    IN  DictSet(p2, "maxNumber", PyStrInt(LimitNumber(a.max_number)))

(* ---------------------------- get_server_info -------------------------- *)

SysVersion == <<"3", ".", "1", "2", " ", "(", "m", ")">>

\* s.split()[0]: the first whitespace-delimited token
RECURSIVE UntilSpace(_)
UntilSpace(s) ==
    IF s = <<>> \/ Head(s) \in Whitespace THEN <<>> ELSE <<Head(s)>> \o UntilSpace(Tail(s))

FirstToken(s) == UntilSpace(LStrip(s))

\* os.environ.get(name, default) on the one variable the server reads
EnvironGet(default) == IF environ = <<>> THEN default ELSE environ[1]

ToolNames ==
    <<"location_search", "trip_search", "departure_board", "nearby_stops",
      "get_server_info">>

\* the tool list without the info tool itself
ServerInfoFourTools ==
    [server_name |-> "Rejseplanen MCP Server",
     version |-> "1.0.0",
     environment |-> EnvironGet("development"),
     python_version |-> FirstToken(SysVersion),
     api_base |-> "https://xmlopen.rejseplanen.dk/bin/rest.exe",
     transport |-> "HTTP (Stateless)",
     tools |-> SubSeq(ToolNames, 1, 4),
     description |-> "MCP server for Danish public transportation via Rejseplanen.dk API 2.0"]

ServerInfo ==
    [server_name |-> "Rejseplanen MCP Server",
     version |-> "1.0.0",
     environment |-> EnvironGet("development"),
     python_version |-> FirstToken(SysVersion),
     api_base |-> "https://xmlopen.rejseplanen.dk/bin/rest.exe",
     transport |-> "HTTP (Stateless)",
     tools |-> ToolNames,
     description |-> "MCP server for Danish public transportation via Rejseplanen.dk API 2.0"]

(* --------------------------- make_api_request -------------------------- *)

\* one dict kept at module level and used by every call
SharedParamsAddr(c) == 1

\* the parameter dict of call c: every handler builds a new dict of its own
ParamsAddr(c) == c

\* params.setdefault('format', 'json'): a value already there is kept
WithFormatKeep(params) ==
    IF "format" \in DOMAIN params THEN params ELSE DictSet(params, "format", Json)

\* params['format'] = 'json'
WithFormat(params) == DictSet(params, "format", Json)

HttpStatuses == {200, 304, 404, 500}

\* what the upstream (or the network) may do with a request; the JSON value it
\* answers with is opaque to the server and is tagged here with the request
\* it answers
Answer(req) == [answer_to |-> req]

\* replies are <<status, whether the body is valid JSON>>
HttpReplies == HttpStatuses \X BOOLEAN

Responses(req, replies) ==
    {[net |-> "timeout"], [net |-> "connection"]}
    \cup {[net |-> "ok", status |-> r[1], bodyValid |-> r[2], body |-> Answer(req)] :
            r \in replies}

TimeoutMsg == "Request to Rejseplanen API timed out after 30 seconds"
RequestFailedMsg == "Rejseplanen API request failed"
ParseFailedMsg == "Failed to parse JSON response"

\* the except clause for RequestException placed before the one for Timeout
HandleResponseTimeoutShadowed(resp) ==
    IF resp.net \in {"timeout", "connection"} THEN Raised("Exception", RequestFailedMsg)
    ELSE IF 400 <= resp.status /\ resp.status < 600
    THEN Raised("Exception", RequestFailedMsg)
    ELSE IF ~resp.bodyValid
    THEN IF jsonErrorIsRequestException
         THEN Raised("Exception", RequestFailedMsg)
         ELSE Raised("Exception", ParseFailedMsg)
    ELSE Returned(resp.body)

\* requests.get, raise_for_status, response.json and the three except clauses
HandleResponse(resp) ==
    IF resp.net = "timeout" THEN Raised("Exception", TimeoutMsg)
    ELSE IF resp.net = "connection" THEN Raised("Exception", RequestFailedMsg)
    ELSE IF 400 <= resp.status /\ resp.status < 600
    THEN Raised("Exception", RequestFailedMsg)
    ELSE IF ~resp.bodyValid
    THEN IF jsonErrorIsRequestException
         THEN Raised("Exception", RequestFailedMsg)
         ELSE Raised("Exception", ParseFailedMsg)
    ELSE Returned(resp.body)

\* a timed-out request is sent again
AfterResponseRetry(call, resp) ==
    IF resp.net = "timeout"
    THEN [call EXCEPT !.pc = "built", !.response = NoResponse]
    ELSE [call EXCEPT !.pc = "done", !.response = resp, !.outcome = HandleResponse(resp)]

\* where a call stands after the outcome of its request is known
AfterResponse(call, resp) ==
    [call EXCEPT !.pc = "done", !.response = resp, !.outcome = HandleResponse(resp)]

(* ------------------------------- inputs -------------------------------- *)

Queries == StringsUpTo(MaxLen)

SampleIds == {<<>>, <<" ">>, <<"a">>, <<" ", "a", "\t">>, <<"a", " ", "B">>}

\* date and time arguments: None, "", and a text with a leading blank
OptTexts == {<<>>, << <<>> >>, << <<" ", "1">> >>}

Around(n) == (n - Slack)..(n + Slack)

Latitudes == Around(-90) \cup {55} \cup Around(90)
Longitudes == Around(-180) \cup {12} \cup Around(180)
Radii == Around(1) \cup Around(MaxRadiusCap) \cup {50000}
Numbers == Around(1) \cup Around(MaxNumberCap) \cup {1000}

LocationArgs == [query : Queries]

TripArgs ==
    [origin_id : SampleIds, dest_id : SampleIds, date : OptTexts, time : OptTexts,
     use_train : BOOLEAN, use_bus : BOOLEAN, use_metro : BOOLEAN, use_ferry : BOOLEAN]

BoardArgs == [station_id : SampleIds, date : OptTexts, time : OptTexts]

NearbyArgs ==
    [latitude : Latitudes, longitude : Longitudes, max_radius : Radii, max_number : Numbers]

\* parameter dicts handed to make_api_request when it is called directly
HelperArgs ==
    [endpoint : {"location"},
     params : {EmptyDict, DictSet(EmptyDict, "format", Xml),
               DictSet(DictSet(EmptyDict, "format", Xml), "input", <<"a">>)}]

\* the smaller inputs of the concurrent specification
ConcLocationArgs == [query : {<<"a">>, <<" ">>}]

ConcTripArgs ==
    [origin_id : {<<"a">>}, dest_id : {<<"B">>}, date : {<<>>, << <<"1">> >>}, time : {<<>>},
     use_train : {TRUE}, use_bus : {FALSE}, use_metro : {TRUE}, use_ferry : {TRUE}]

ConcBoardArgs == [station_id : {<<"a">>}, date : {<<>>}, time : {<< <<"2">> >>}]

ConcNearbyArgs ==
    [latitude : {55}, longitude : {12}, max_radius : {1000}, max_number : {10}]

ConcReplies == {<<200, TRUE>>, <<200, FALSE>>, <<304, TRUE>>, <<404, TRUE>>}

Environments == {<<>>, <<"">>, <<"production">>}

(* ------------------------------- actions ------------------------------- *)

Init ==
    /\ environ \in Environments
    /\ jsonErrorIsRequestException \in BOOLEAN
    /\ calls = [c \in Slots |-> IdleCall]
    /\ heap = [c \in Slots |-> EmptyDict]

\* a handler from its entry to its call of make_api_request: the arguments
\* are validated, and either ValueError is raised or the parameter dict is built
Begin(c, tool, args, err, endpoint, params) ==
    /\ IF err # <<>>
       THEN /\ calls' = [calls EXCEPT ![c] =
                           [IdleCall EXCEPT !.pc = "done", !.tool = tool, !.args = args,
                                            !.outcome = Raised("ValueError", err[1])]]
            /\ UNCHANGED heap
       ELSE /\ calls' = [calls EXCEPT ![c] =
                           [IdleCall EXCEPT !.pc = "built", !.tool = tool, !.args = args,
                                            !.endpoint = endpoint]]
            /\ heap' = [heap EXCEPT ![ParamsAddr(c)] = params]
    /\ UNCHANGED <<environ, jsonErrorIsRequestException>>

LocationSearch(c, inputs) ==
    /\ calls[c].pc = "idle"
    /\ \E a \in inputs :
           Begin(c, "location_search", a, LocationSearchValidate(a), "location",
                 LocationSearchParams(a))

TripSearch(c, inputs) ==
    /\ calls[c].pc = "idle"
    /\ \E a \in inputs :
           Begin(c, "trip_search", a, TripSearchValidate(a), "trip", TripSearchParams(a))

DepartureBoard(c, inputs) ==
    /\ calls[c].pc = "idle"
    /\ \E a \in inputs :
           Begin(c, "departure_board", a, DepartureBoardValidate(a), "departureBoard",
                 DepartureBoardParams(a))

NearbyStops(c, inputs) ==
    /\ calls[c].pc = "idle"
    /\ \E a \in inputs :
           Begin(c, "nearby_stops", a, NearbyStopsValidate(a), "stopsNearby",
                 NearbyStopsParams(a))

\* make_api_request called with a dict of the caller's own
MakeApiRequest(c, inputs) ==
    /\ calls[c].pc = "idle"
    /\ \E a \in inputs : Begin(c, "make_api_request", a, <<>>, a.endpoint, a.params)

GetServerInfo(c) ==
    /\ calls[c].pc = "idle"
    /\ calls' = [calls EXCEPT ![c] =
                    [IdleCall EXCEPT !.pc = "done", !.tool = "get_server_info",
                                     !.outcome = Returned(ServerInfo)]]
    /\ UNCHANGED <<environ, jsonErrorIsRequestException, heap>>

\* make_api_request up to requests.get: format is set in the dict and the GET
\* goes out with the dict as its query parameters
Send(c) ==
    /\ calls[c].pc = "built"
    /\ LET addr == ParamsAddr(c)
           params == WithFormat(heap[addr])
           req == [endpoint |-> calls[c].endpoint, params |-> params]
       IN  /\ heap' = [heap EXCEPT ![addr] = params]
           /\ calls' = [calls EXCEPT ![c].pc = "waiting",
                                     ![c].sent = Append(calls[c].sent, req)]
    /\ UNCHANGED <<environ, jsonErrorIsRequestException>>

\* the GET comes back (or fails) and make_api_request returns or raises
Respond(c, replies) ==
    /\ calls[c].pc = "waiting"
    /\ \E resp \in Responses(calls[c].sent[Len(calls[c].sent)], replies) :
           calls' = [calls EXCEPT ![c] = AfterResponse(calls[c], resp)]
    /\ heap' = [heap EXCEPT ![ParamsAddr(c)] = EmptyDict]
    /\ UNCHANGED <<environ, jsonErrorIsRequestException>>

\* the dispatch layer relays the result; nothing of the call is kept
Return(c) ==
    /\ calls[c].pc = "done"
    /\ calls' = [calls EXCEPT ![c] = IdleCall]
    /\ UNCHANGED <<environ, jsonErrorIsRequestException, heap>>

Next ==
    \/ LocationSearch(1, LocationArgs)
    \/ TripSearch(1, TripArgs)
    \/ DepartureBoard(1, BoardArgs)
    \/ NearbyStops(1, NearbyArgs)
    \/ MakeApiRequest(1, HelperArgs)
    \/ GetServerInfo(1)
    \/ Send(1)
    \/ Respond(1, HttpReplies)
    \/ Return(1)

\* one call at a time, over the full inputs
Spec == Init /\ [][Next]_vars

NextConc ==
    \E c \in Slots :
        \/ LocationSearch(c, ConcLocationArgs)
        \/ TripSearch(c, ConcTripArgs)
        \/ DepartureBoard(c, ConcBoardArgs)
        \/ NearbyStops(c, ConcNearbyArgs)
        \/ GetServerInfo(c)
        \/ Send(c)
        \/ Respond(c, ConcReplies)
        \/ Return(c)

\* NumCalls calls in progress at once, interleaved step by step
SpecConc == Init /\ [][NextConc]_vars

(* ------------------------- vocabulary of the claims -------------------- *)

UpstreamTools == {"location_search", "trip_search", "departure_board", "nearby_stops"}

Handlers == UpstreamTools \cup {"get_server_info"}

\* empty or made of whitespace only
Blank(s) == \A i \in 1..Len(s) : s[i] \in Whitespace

\* the arguments break a precondition of the tool
ArgsInvalid(tool, a) ==
    CASE tool = "location_search" -> Blank(a.query)
      [] tool = "trip_search" -> Blank(a.origin_id) \/ Blank(a.dest_id)
      [] tool = "departure_board" -> Blank(a.station_id)
      [] tool = "nearby_stops" ->
            \/ a.latitude \notin -90..90
            \/ a.longitude \notin -180..180
            \/ a.max_radius < 1
            \/ a.max_number < 1
      [] OTHER -> FALSE

\* the error kinds of the taxonomy, as the exceptions the server raises
IsInvalidArgument(o) == o.status = "error" /\ o.exc = "ValueError"
IsUpstreamTimeoutError(o) == o.status = "error" /\ o.exc = "Exception" /\ o.msg = TimeoutMsg
IsRequestFailed(o) == o.status = "error" /\ o.exc = "Exception" /\ o.msg = RequestFailedMsg
IsResponseParseError(o) == o.status = "error" /\ o.exc = "Exception" /\ o.msg = ParseFailedMsg

Done(c) == calls[c].pc = "done"
Succeeded(c) == Done(c) /\ calls[c].outcome.status = "ok"
Failed(c) == Done(c) /\ calls[c].outcome.status = "error"

(* -------------------------------- C1 ----------------------------------- *)

\* C1: for location_search, trip_search, departure_board and nearby_stops, a
\* call whose arguments fail validation has ended with InvalidArgument
\* (ValueError) and has issued no upstream request; and no call that ended
\* with InvalidArgument has issued one.
C1_ValidationPrecedesNetwork ==
    \A c \in Slots :
        /\ (calls[c].tool \in UpstreamTools /\ ArgsInvalid(calls[c].tool, calls[c].args))
              => /\ Done(c)
                 /\ IsInvalidArgument(calls[c].outcome)
                 /\ calls[c].sent = <<>>
        /\ IsInvalidArgument(calls[c].outcome) => calls[c].sent = <<>>

C1_Witness ==
    \E c \in Slots :
        /\ Done(c)
        /\ calls[c].tool = "departure_board"
        /\ calls[c].args.station_id = <<" ">>
        /\ IsInvalidArgument(calls[c].outcome)
        /\ calls[c].sent = <<>>

(* -------------------------------- C2 ----------------------------------- *)

\* C2 as stated: every successful call of a tool handler has issued exactly
\* one upstream request, and that request carries format=json.
C2_EverySuccessfulHandlerCallSendsOnce ==
    \A c \in Slots :
        (Succeeded(c) /\ calls[c].tool \in Handlers)
            => /\ Len(calls[c].sent) = 1
               /\ "format" \in DOMAIN calls[c].sent[1].params
               /\ calls[c].sent[1].params["format"] = Json

\* C2 (amended): every successful call of location_search, trip_search,
\* departure_board or nearby_stops, and every successful direct call of the
\* request helper, has issued exactly one upstream request; every request
\* issued carries format=json, also when the dict handed to the helper held
\* another value for format; a successful get_server_info has issued none.
C2_SuccessfulUpstreamCallSendsOnce ==
    \A c \in Slots :
        /\ (Succeeded(c) /\ calls[c].tool # "get_server_info") => Len(calls[c].sent) = 1
        /\ (Succeeded(c) /\ calls[c].tool = "get_server_info") => calls[c].sent = <<>>
        /\ \A i \in 1..Len(calls[c].sent) :
              /\ "format" \in DOMAIN calls[c].sent[i].params
              /\ calls[c].sent[i].params["format"] = Json

C2_Witness ==
    \E c \in Slots :
        /\ Succeeded(c)
        /\ calls[c].tool = "make_api_request"
        /\ calls[c].args.params = DictSet(DictSet(EmptyDict, "format", Xml), "input", <<"a">>)
        /\ calls[c].sent[1].params["format"] = Json
        /\ calls[c].sent[1].params["input"] = <<"a">>

(* -------------------------------- C3 ----------------------------------- *)

\* C3: a timeout of the upstream request, at any of the four endpoints, ends
\* the call with UpstreamTimeoutError; a call that has failed is over, and no
\* call ever issues more than one upstream request.
C3_TimeoutEndsCallWithoutRetry ==
    \A c \in Slots :
        /\ Len(calls[c].sent) <= 1
        /\ calls[c].response.net = "timeout"
              => Done(c) /\ IsUpstreamTimeoutError(calls[c].outcome)
        /\ calls[c].response.net \notin {"none", "ok"} => Failed(c)
        /\ calls[c].outcome.status = "error" => Done(c)

C3_Witness ==
    \E c \in Slots :
        /\ Done(c)
        /\ calls[c].endpoint = "stopsNearby"
        /\ calls[c].response.net = "timeout"
        /\ IsUpstreamTimeoutError(calls[c].outcome)
        /\ Len(calls[c].sent) = 1

(* -------------------------------- C5 ----------------------------------- *)

\* C5: nearby_stops fails with InvalidArgument if and only if latitude is
\* outside [-90, 90], or longitude is outside [-180, 180], or max_radius < 1,
\* or max_number < 1; every other call, whatever its max_radius and
\* max_number above the caps, goes on to the upstream request.
C5_NearbyStopsRejectsExactly ==
    \A c \in Slots :
        calls[c].tool = "nearby_stops" =>
            LET a == calls[c].args
                bad == \/ a.latitude < -90 \/ a.latitude > 90
                       \/ a.longitude < -180 \/ a.longitude > 180
                       \/ a.max_radius < 1
                       \/ a.max_number < 1
            IN  /\ bad <=> (Done(c) /\ IsInvalidArgument(calls[c].outcome))
                /\ ~bad => (calls[c].pc = "built" \/ Len(calls[c].sent) = 1)
                /\ (a.max_number = 0) => IsInvalidArgument(calls[c].outcome)

C5_Witness ==
    \E c \in Slots :
        /\ calls[c].tool = "nearby_stops"
        /\ Done(c)
        /\ calls[c].args.max_number > MaxNumberCap
        /\ calls[c].args.max_radius > MaxRadiusCap
        /\ calls[c].args.latitude = 90
        /\ calls[c].args.longitude = -180
        /\ Len(calls[c].sent) = 1
        /\ ~IsInvalidArgument(calls[c].outcome)

(* -------------------------------- C6 ----------------------------------- *)

DigitValue(ch) == CHOOSE d \in 0..9 : Digits[d + 1] = ch

IsDigits(s) == s # <<>> /\ \A i \in 1..Len(s) : \E d \in 0..9 : Digits[d + 1] = s[i]

RECURSIVE DecimalValue(_)
DecimalValue(s) ==
    IF s = <<>> THEN 0
    ELSE 10 * DecimalValue(SubSeq(s, 1, Len(s) - 1)) + DigitValue(s[Len(s)])

\* the number a decimal text such as "50", "-90.0" or "12.0" stands for,
\* as <<n>>, or <<>> when the text is no whole number
NumberOf(s) ==
    LET neg == s # <<>> /\ Head(s) = "-"
        u == IF neg THEN Tail(s) ELSE s
        whole == IF Len(u) > 2 /\ SubSeq(u, Len(u) - 1, Len(u)) = <<".", "0">>
                 THEN SubSeq(u, 1, Len(u) - 2)
                 ELSE u
    IN  IF ~IsDigits(whole) THEN <<>>
        ELSE IF neg THEN <<-DecimalValue(whole)>> ELSE <<DecimalValue(whole)>>

Min(x, y) == IF x <= y THEN x ELSE y

\* C6: the request of a nearby_stops call that passed validation has exactly
\* the parameters coordX, coordY, maxRadius, maxNumber and format, with
\* maxRadius = min(max_radius, 10000) in 1..10000, maxNumber =
\* min(max_number, 50) in 1..50 (so values up to the cap are sent as given),
\* coordX the longitude and coordY the latitude.
C6_NearbyStopsClamps ==
    \A c \in Slots :
        (calls[c].tool = "nearby_stops" /\ calls[c].sent # <<>>) =>
            LET a == calls[c].args
                p == calls[c].sent[1].params
            IN  /\ calls[c].sent[1].endpoint = "stopsNearby"
                /\ DOMAIN p = {"coordX", "coordY", "maxRadius", "maxNumber", "format"}
                /\ NumberOf(p["maxRadius"]) = <<Min(a.max_radius, 10000)>>
                /\ NumberOf(p["maxNumber"]) = <<Min(a.max_number, 50)>>
                /\ NumberOf(p["maxRadius"])[1] \in 1..10000
                /\ NumberOf(p["maxNumber"])[1] \in 1..50
                /\ NumberOf(p["coordX"]) = <<a.longitude>>
                /\ NumberOf(p["coordY"]) = <<a.latitude>>

C6_Witness ==
    \E c \in Slots :
        /\ calls[c].tool = "nearby_stops"
        /\ calls[c].pc = "waiting"
        /\ calls[c].args.max_radius = 50000
        /\ calls[c].args.max_number = MaxNumberCap
        /\ calls[c].sent[1].params["maxRadius"] = <<"1", "0", "0", "0", "0">>
        /\ calls[c].sent[1].params["maxNumber"] = <<"5", "0">>
        /\ calls[c].sent[1].params["coordX"] = <<"1", "2", ".", "0">>
        /\ calls[c].sent[1].params["coordY"] = <<"5", "5", ".", "0">>

(* -------------------------------- C7 ----------------------------------- *)

OneOrZero(b) == IF b THEN <<"1">> ELSE <<"0">>

\* C7: the request of a trip_search call that passed validation has exactly
\* the keys originId, destId, useTog, useBus, useMetro, useFerry and format,
\* plus date iff a non-empty date was given and time iff a non-empty time was
\* given; each use* value is "1" or "0" as its own flag is true or false, and
\* date and time are sent as given.
C7_TripSearchParameters ==
    \A c \in Slots :
        (calls[c].tool = "trip_search" /\ calls[c].sent # <<>>) =>
            LET a == calls[c].args
                p == calls[c].sent[1].params
                hasDate == a.date # <<>> /\ a.date[1] # <<>>
                hasTime == a.time # <<>> /\ a.time[1] # <<>>
            IN  /\ calls[c].sent[1].endpoint = "trip"
                /\ DOMAIN p =
                      {"originId", "destId", "useTog", "useBus", "useMetro", "useFerry",
                       "format"}
                      \cup (IF hasDate THEN {"date"} ELSE {})
                      \cup (IF hasTime THEN {"time"} ELSE {})
                /\ p["useTog"] = OneOrZero(a.use_train)
                /\ p["useBus"] = OneOrZero(a.use_bus)
                /\ p["useMetro"] = OneOrZero(a.use_metro)
                /\ p["useFerry"] = OneOrZero(a.use_ferry)
                /\ hasDate => p["date"] = a.date[1]
                /\ hasTime => p["time"] = a.time[1]

C7_Witness ==
    \E c \in Slots :
        /\ calls[c].tool = "trip_search"
        /\ calls[c].pc = "waiting"
        /\ calls[c].args.date = << <<" ", "1">> >>
        /\ calls[c].args.time = << <<>> >>
        /\ ~calls[c].args.use_bus
        /\ calls[c].args.use_train /\ calls[c].args.use_metro /\ calls[c].args.use_ferry
        /\ calls[c].sent[1].params["useBus"] = <<"0">>
        /\ calls[c].sent[1].params["useMetro"] = <<"1">>
        /\ calls[c].sent[1].params["date"] = <<" ", "1">>
        /\ "time" \notin DOMAIN calls[c].sent[1].params

(* -------------------------------- C8 ----------------------------------- *)

\* t is s without its leading and trailing whitespace, and otherwise s
IsTrimOf(t, s) ==
    /\ t # <<>>
    /\ t[1] \notin Whitespace
    /\ t[Len(t)] \notin Whitespace
    /\ \E i \in 0..Len(s) :
          /\ i + Len(t) <= Len(s)
          /\ SubSeq(s, i + 1, i + Len(t)) = t
          /\ Blank(SubSeq(s, 1, i))
          /\ Blank(SubSeq(s, i + Len(t) + 1, Len(s)))

\* C8: location_search with a query that is neither empty nor whitespace-only
\* sends, as parameter input, the query without its leading and trailing
\* whitespace and otherwise unchanged; with the empty string or a
\* whitespace-only query it fails with InvalidArgument.
C8_LocationSearchTrimsQuery ==
    \A c \in Slots :
        calls[c].tool = "location_search" =>
            LET q == calls[c].args.query
            IN  /\ Blank(q) => (Done(c) /\ IsInvalidArgument(calls[c].outcome))
                /\ ~Blank(q) =>
                      /\ ~IsInvalidArgument(calls[c].outcome)
                      /\ calls[c].pc = "built" \/ Len(calls[c].sent) = 1
                      /\ calls[c].sent # <<>> =>
                            /\ calls[c].sent[1].endpoint = "location"
                            /\ DOMAIN calls[c].sent[1].params = {"input", "format"}
                            /\ IsTrimOf(calls[c].sent[1].params["input"], q)

C8_Witness ==
    \E c \in Slots :
        /\ calls[c].tool = "location_search"
        /\ calls[c].args.query = <<" ", "B", "\t">>
        /\ calls[c].pc = "waiting"
        /\ calls[c].sent[1].params["input"] = <<"B">>

(* -------------------------------- C4 ----------------------------------- *)

\* why a call went wrong, in the terms of the error taxonomy
Cause(c) ==
    IF calls[c].tool \in UpstreamTools /\ ArgsInvalid(calls[c].tool, calls[c].args)
    THEN "validation"
    ELSE IF calls[c].response.net \in {"timeout", "connection"} THEN calls[c].response.net
    ELSE IF calls[c].response.net = "none" THEN "none"
    ELSE IF calls[c].response.status \notin 200..299 THEN "http"
    ELSE IF ~calls[c].response.bodyValid THEN "json"
    ELSE "none"

ErrorOf(c) == <<calls[c].outcome.exc, calls[c].outcome.msg>>

\* C4 as stated: a failed validation, a timeout, any other network failure, a
\* non-2xx status and an invalid JSON body yield five error kinds none of
\* which coincides with another: two calls that failed for different causes
\* ended with different errors.
C4_ErrorKindsPairwiseDistinct ==
    \A c, d \in Slots :
        (Failed(c) /\ Failed(d) /\ Cause(c) # Cause(d)) => ErrorOf(c) # ErrorOf(d)

\* C4 (amended): the error a call ends with is determined by the failure
\* cause.  Failed validation yields ValueError (InvalidArgument), and nothing
\* else does; every upstream failure yields a plain Exception told apart by its
\* message only: a timeout yields the timed-out error, and nothing else does; a
\* network failure other than timeout and an HTTP status in 400..599 both
\* yield the same request-failed error; an invalid JSON body under any other
\* status yields the parse error, or, where the HTTP library's JSON error is
\* one of its request errors, the request-failed error; a valid body under
\* any status outside 400..599 is returned.
C4_ErrorDeterminedByCause ==
    \A c \in Slots :
        (Done(c) /\ calls[c].tool # "get_server_info") =>
            LET o == calls[c].outcome
                r == calls[c].response
                httpError == r.net = "ok" /\ r.status \in 400..599
            IN  /\ IsInvalidArgument(o) <=> Cause(c) = "validation"
                /\ IsUpstreamTimeoutError(o) <=> Cause(c) = "timeout"
                /\ Cause(c) = "connection" => IsRequestFailed(o)
                /\ httpError => IsRequestFailed(o)
                /\ (r.net = "ok" /\ ~httpError /\ ~r.bodyValid) =>
                      IF jsonErrorIsRequestException
                      THEN IsRequestFailed(o)
                      ELSE IsResponseParseError(o)
                /\ (r.net = "ok" /\ ~httpError /\ r.bodyValid) =>
                      o = Returned(Answer(calls[c].sent[1]))
                /\ IsResponseParseError(o) => Cause(c) \in {"json", "http"}
                /\ \A d \in Slots :
                      (Failed(d) /\ Cause(d) # "validation" /\ Cause(c) = "validation")
                          => ErrorOf(c) # ErrorOf(d)

C4_Witness ==
    \E c, d \in Slots :
        /\ Failed(c) /\ Failed(d)
        /\ calls[c].response.net = "connection"
        /\ calls[d].response.net = "ok"
        /\ calls[d].response.status = 404
        /\ ErrorOf(c) = ErrorOf(d)

(* -------------------------------- C9 ----------------------------------- *)

\* C9: get_server_info issues no upstream request and never fails; its
\* environment field is the value of ENVIRONMENT, "development" when that is
\* not set; its tools field is exactly the five tool names; and any two of
\* its results under the same configuration are equal.
C9_ServerInfoPureAndFixed ==
    \A c \in Slots :
        calls[c].tool = "get_server_info" =>
            /\ Succeeded(c)
            /\ calls[c].sent = <<>>
            /\ calls[c].response = NoResponse
            /\ calls[c].outcome.value.environment =
                  (IF environ = <<>> THEN "development" ELSE environ[1])
            /\ Len(calls[c].outcome.value.tools) = 5
            /\ {calls[c].outcome.value.tools[i] : i \in 1..5} =
                  {"location_search", "trip_search", "departure_board", "nearby_stops",
                   "get_server_info"}
            /\ calls[c].outcome.value.python_version = <<"3", ".", "1", "2">>
            /\ \A d \in Slots :
                  calls[d].tool = "get_server_info" => calls[d].outcome = calls[c].outcome

C9_Witness ==
    \E c, d \in Slots :
        /\ c # d
        /\ calls[c].tool = "get_server_info" /\ Succeeded(c)
        /\ calls[d].tool = "get_server_info" /\ Succeeded(d)
        /\ environ = <<"production">>
        /\ calls[c].outcome.value.environment = "production"

(* -------------------------------- C10 ---------------------------------- *)

\* the parameters a tool builds from its arguments
ParamsOf(tool, a) ==
    CASE tool = "location_search" -> LocationSearchParams(a)
      [] tool = "trip_search" -> TripSearchParams(a)
      [] tool = "departure_board" -> DepartureBoardParams(a)
      [] tool = "nearby_stops" -> NearbyStopsParams(a)
      [] tool = "make_api_request" -> a.params

\* C10: under every interleaving of concurrent calls, the dict a call has
\* built, the request it issues and its outcome are those its own arguments
\* and its own upstream response give: nothing of another call, running
\* before or alongside it, shows in them.
C10_CallsAreIndependent ==
    \A c \in Slots :
        /\ calls[c].pc = "built" => heap[c] = ParamsOf(calls[c].tool, calls[c].args)
        /\ calls[c].sent # <<>> =>
              /\ Len(calls[c].sent) = 1
              /\ calls[c].sent[1].endpoint = calls[c].endpoint
              /\ calls[c].sent[1].params =
                    DictSet(ParamsOf(calls[c].tool, calls[c].args), "format", Json)
        /\ (Done(c) /\ calls[c].response # NoResponse) =>
              /\ calls[c].outcome = HandleResponse(calls[c].response)
              /\ calls[c].response.net = "ok" =>
                    calls[c].response.body = Answer(calls[c].sent[1])
        /\ calls[c].pc = "idle" => calls[c] = IdleCall

C10_Witness ==
    \E c, d \in Slots :
        /\ c # d
        /\ Succeeded(c) /\ calls[c].tool = "trip_search"
        /\ calls[c].args.date # <<>>
        /\ Succeeded(d) /\ calls[d].tool = "trip_search"
        /\ calls[d].args.date = <<>>
        /\ calls[c].outcome.value # calls[d].outcome.value
        /\ "date" \notin DOMAIN calls[d].sent[1].params

====
